---- MODULE Spec2Model ----
(***************************************************************************)
(* zkdiff: the host's redaction-argument parser and the guest's diff       *)
(* pipeline (Myers solver, backtracking, record building, commitment       *)
(* hash), modelled as a state machine.                                     *)
(*                                                                         *)
(* Rust vectors are 0-based; a TLA+ sequence s holds Rust's s[i] at        *)
(* s[i + 1] (operator At).  An out-of-range index panics.                  *)
(***************************************************************************)
EXTENDS Integers, Sequences, FiniteSets, TLC

\* ------------------------------------------------------------------ bounds
\* Longest document (in lines) of the specification Spec.
MaxLen == 4
\* Longest document (in lines) of the specification SpecRedact.
MaxLenRedact == 2
\* Largest line number written in a redaction entry of SpecRedact.
MaxRangeNum == 2

\* ------------------------------------------------------------ Option, Vec
None == <<>>
Some(x) == <<x>>
IsSome(o) == Len(o) = 1
Unwrap(o) == o[1]

At(s, i) == s[i + 1]
InRange(s, i) == i >= 0 /\ i < Len(s)
Zeros(len) == [i \in 1..len |-> 0]

RECURSIVE Reverse(_)
Reverse(s) == IF s = <<>> THEN <<>> ELSE Append(Reverse(Tail(s)), Head(s))

RECURSIVE Concat(_)
Concat(ss) == IF ss = <<>> THEN <<>> ELSE Head(ss) \o Concat(Tail(ss))

\* All sequences over S of length at most n.
BSeq(S, n) == UNION {[1..len -> S] : len \in 0..n}

\* `(i as usize) < len` and `(i as usize) >= len` for an i32 i: a negative i32
\* casts to a usize above every vector length.
LtUsize(i, len) == i >= 0 /\ i < len
GeUsize(i, len) == i < 0 \/ i >= len

\* ------------------------------------------------- host: redaction argument
\* A string is a sequence of one-character strings.
Digits == <<"0", "1", "2", "3", "4", "5", "6", "7", "8", "9">>
IsDigit(c) == \E i \in 1..10 : Digits[i] = c
DigitVal(c) == (CHOOSE i \in 1..10 : Digits[i] = c) - 1

\* str::split(sep): the pieces between the separators, empty pieces kept.
RECURSIVE SplitFrom(_, _, _)
SplitFrom(s, sep, cur) ==
    IF s = <<>> THEN <<cur>>
    ELSE IF Head(s) = sep THEN <<cur>> \o SplitFrom(Tail(s), sep, <<>>)
    ELSE SplitFrom(Tail(s), sep, Append(cur, Head(s)))
Split(s, sep) == SplitFrom(s, sep, <<>>)

\* The operation names of an entry; None for any other name.
ParseOperation(p) ==
    IF p = <<"i", "n", "s", "e", "r", "t">> \/ p = <<"i">> THEN Some("Insert")
    ELSE IF p = <<"d", "e", "l", "e", "t", "e">> \/ p = <<"d">> THEN Some("Delete")
    ELSE IF p = <<"r", "e", "p", "l", "a", "c", "e">> \/ p = <<"r">> THEN Some("Replace")
    ELSE None

\* str::parse::<usize>(): an optional '+', then one or more decimal digits;
\* None for anything else.  (The numbers of the model stay far below usize::MAX.)
RECURSIVE DigitsValue(_, _)
DigitsValue(s, acc) ==
    IF s = <<>> THEN acc ELSE DigitsValue(Tail(s), 10 * acc + DigitVal(Head(s)))
ParseUsize(s) ==
    LET body == IF s # <<>> /\ Head(s) = "+" THEN Tail(s) ELSE s
    IN  IF body # <<>> /\ \A i \in 1..Len(body) : IsDigit(body[i])
        THEN Some(DigitsValue(body, 0))
        ELSE None

\* The loop of parse_redaction_ranges over the entries still to read: `continue`
\* drops the entry, `?` returns the error and drops everything read so far.
RECURSIVE ParseEntries(_, _)
ParseEntries(entries, ranges) ==
    IF entries = <<>> THEN [ok |-> TRUE, ranges |-> ranges]
    ELSE
      LET parts == Split(Head(entries), ":")
          rest == Tail(entries)
      IN  IF Len(parts) # 2 THEN ParseEntries(rest, ranges)
          ELSE IF ~IsSome(ParseOperation(parts[1])) THEN ParseEntries(rest, ranges)
          ELSE
            LET range_parts == Split(parts[2], "-")
            IN  IF Len(range_parts) # 2 THEN ParseEntries(rest, ranges)
                ELSE
                  LET start_line == ParseUsize(range_parts[1])
                      end_line == ParseUsize(range_parts[2])
                  IN  IF ~IsSome(start_line) \/ ~IsSome(end_line)
                      THEN [ok |-> FALSE, ranges |-> <<>>]
                      ELSE ParseEntries(rest, Append(ranges,
                               [start_line |-> Unwrap(start_line),
                                end_line |-> Unwrap(end_line),
                                operation |-> Unwrap(ParseOperation(parts[1]))]))

parse_redaction_ranges(str) ==
    IF str = <<>> THEN [ok |-> TRUE, ranges |-> <<>>]
    ELSE ParseEntries(Split(str, ","), <<>>)

\* ------------------------------------------------------------ guest: solver
\* Line 112 with the comparison turned round.
SolverTakesUpper_Reversed(v, idx, k, d) ==
    k = -d \/ (k # d /\ At(v, idx - 1) > At(v, idx + 1))

\* Line 112: the solver's choice of neighbour.  TRUE: take diagonal k+1's
\* reach (a step that advances only B's index); FALSE: take diagonal k-1's
\* reach plus one (a step that advances only A's index).
SolverTakesUpper(v, idx, k, d) ==
    k = -d \/ (k # d /\ At(v, idx - 1) < At(v, idx + 1))

\* The indices of v line 112 reads, with Rust's short-circuit evaluation.
SolverReads(idx, k, d) ==
    IF k = -d THEN {idx + 1}
    ELSE IF k # d THEN {idx - 1, idx + 1}
    ELSE {idx - 1}

\* Lines 121-125 without the comparison of the two lines.
RECURSIVE SnakeLength_AnyLine(_, _, _, _)
SnakeLength_AnyLine(a, b, x, y) ==
    IF LtUsize(x, Len(a)) /\ LtUsize(y, Len(b))
    THEN 1 + SnakeLength_AnyLine(a, b, x + 1, y + 1)
    ELSE 0

\* Lines 121-125: the number of equal lines from (x, y) on.
RECURSIVE SnakeLength(_, _, _, _)
SnakeLength(a, b, x, y) ==
    IF LtUsize(x, Len(a)) /\ LtUsize(y, Len(b)) /\ At(a, x) = At(b, y)
    THEN 1 + SnakeLength(a, b, x + 1, y + 1)
    ELSE 0

\* Line 129: the end of both documents is reached.
ReachedEnd(x_cur, y_cur, n, m) == GeUsize(x_cur, n) /\ GeUsize(y_cur, m)

\* --------------------------------------------------------- guest: backtrack
\* Lines 150-155 with `<=` for `<`.
BacktrackPrevK_NonStrict(v, idx, k, trace_d) ==
    IF k = -trace_d \/ (k # trace_d /\ At(v, idx - 1) <= At(v, idx + 1))
    THEN k + 1
    ELSE k - 1

\* Lines 150-155: the neighbour the reconstructor walks back to.
BacktrackPrevK(v, idx, k, trace_d) ==
    IF k = -trace_d \/ (k # trace_d /\ At(v, idx - 1) < At(v, idx + 1))
    THEN k + 1
    ELSE k - 1

BacktrackReads(idx, k, trace_d) ==
    IF k = -trace_d THEN {}
    ELSE IF k # trace_d THEN {idx - 1, idx + 1}
    ELSE {}

Max(p, q) == IF p > q THEN p ELSE q

\* Lines 161-169: the Keep edits of the snake walked back from (x, y) to the
\* point where x = prev_x or y = prev_y, in the order they are pushed.
RECURSIVE KeepEdits(_, _, _, _)
KeepEdits(x, y, prev_x, prev_y) ==
    IF x > prev_x /\ y > prev_y
    THEN <<[operation |-> "Keep", old_index |-> x - 1, new_index |-> y - 1]>>
             \o KeepEdits(x - 1, y - 1, prev_x, prev_y)
    ELSE <<>>

\* ---------------------------------------------------- guest: diff records
SatSub(p, q) == IF p >= q THEN p - q ELSE 0

\* Lines 245-258 with end_line exclusive in 1-based numbering.
should_redact_line_EndExclusive(line_number, operation, redaction_ranges) ==
    \E i \in 1..Len(redaction_ranges) :
        /\ redaction_ranges[i].operation = operation
        /\ line_number >= SatSub(redaction_ranges[i].start_line, 1)
        /\ line_number < redaction_ranges[i].end_line - 1

\* Lines 245-258.
should_redact_line(line_number, operation, redaction_ranges) ==
    \E i \in 1..Len(redaction_ranges) :
        /\ redaction_ranges[i].operation = operation
        /\ line_number >= SatSub(redaction_ranges[i].start_line, 1)
        /\ line_number < redaction_ranges[i].end_line

\* Lines 207-222 with the length set whether or not the line is redacted.
DeleteLine_AlwaysLength(edit, lines_a, redaction_ranges) ==
    LET line_content == At(lines_a, edit.old_index)
        should_redact == should_redact_line(edit.old_index, "Delete", redaction_ranges)
    IN  [line_number_a |-> Some(edit.old_index + 1),
         line_number_b |-> None,
         operation |-> "Delete",
         content |-> IF should_redact THEN None ELSE Some(line_content),
         redacted_length |-> Some(Len(line_content))]

\* Lines 207-222: the record of a Delete edit.
DeleteLine(edit, lines_a, redaction_ranges) ==
    LET line_content == At(lines_a, edit.old_index)
        should_redact == should_redact_line(edit.old_index, "Delete", redaction_ranges)
    IN  [line_number_a |-> Some(edit.old_index + 1),
         line_number_b |-> None,
         operation |-> "Delete",
         content |-> IF should_redact THEN None ELSE Some(line_content),
         redacted_length |-> IF should_redact THEN Some(Len(line_content)) ELSE None]

\* Lines 223-238: the record of an Insert edit.
InsertLine(edit, lines_b, redaction_ranges) ==
    LET line_content == At(lines_b, edit.new_index)
        should_redact == should_redact_line(edit.new_index, "Insert", redaction_ranges)
    IN  [line_number_a |-> None,
         line_number_b |-> Some(edit.new_index + 1),
         operation |-> "Insert",
         content |-> IF should_redact THEN None ELSE Some(line_content),
         redacted_length |-> IF should_redact THEN Some(Len(line_content)) ELSE None]

\* Lines 202-242: one record for each edit that is not a Keep, in order.
RECURSIVE create_diff_lines(_, _, _, _)
create_diff_lines(edits_, lines_a, lines_b, redaction_ranges) ==
    IF edits_ = <<>> THEN <<>>
    ELSE
      LET edit == Head(edits_)
          rest == create_diff_lines(Tail(edits_), lines_a, lines_b, redaction_ranges)
      IN  IF edit.operation = "Keep" THEN rest
          ELSE IF edit.operation = "Delete"
               THEN <<DeleteLine(edit, lines_a, redaction_ranges)>> \o rest
               ELSE <<InsertLine(edit, lines_b, redaction_ranges)>> \o rest

\* The edits whose line create_diff_lines cannot index (lines 208 and 224).
DiffLinesPanics(edits_, lines_a, lines_b) ==
    \E i \in 1..Len(edits_) :
        \/ edits_[i].operation = "Delete" /\ ~InRange(lines_a, edits_[i].old_index)
        \/ edits_[i].operation = "Insert" /\ ~InRange(lines_b, edits_[i].new_index)

\* ------------------------------------------------------- guest: commitment
\* Width of usize::to_le_bytes() on the guest (riscv32).
USIZE_BYTES == 4
\* Width of a SHA-256 digest.
DIGEST_BYTES == 32

RECURSIVE Pow256(_)
Pow256(i) == IF i = 0 THEN 1 ELSE 256 * Pow256(i - 1)
to_le_bytes(n) == [i \in 1..USIZE_BYTES |-> (n \div Pow256(i - 1)) % 256]

\* b"content:" and b"redacted:".
ContentMarker == <<99, 111, 110, 116, 101, 110, 116, 58>>
RedactedMarker == <<114, 101, 100, 97, 99, 116, 101, 100, 58>>

OperationTag(operation) ==
    IF operation = "Insert" THEN 1 ELSE IF operation = "Delete" THEN 2 ELSE 3

\* Lines 266-289: the bytes one record feeds to the hasher.
LineBytes(line) ==
    <<OperationTag(line.operation)>>
    \o (IF IsSome(line.line_number_a) THEN to_le_bytes(Unwrap(line.line_number_a)) ELSE <<>>)
    \o (IF IsSome(line.line_number_b) THEN to_le_bytes(Unwrap(line.line_number_b)) ELSE <<>>)
    \o (IF IsSome(line.content) THEN ContentMarker \o Unwrap(line.content)
        ELSE IF IsSome(line.redacted_length)
             THEN RedactedMarker \o to_le_bytes(Unwrap(line.redacted_length))
             ELSE <<>>)

\* Lines 260-293.  SHA-256 is taken as collision-free: the commitment is
\* modelled by the byte string the hasher is fed.
create_proof_hash(file_a_hash, file_b_hash, diff_lines_) ==
    file_a_hash \o file_b_hash
        \o Concat([i \in 1..Len(diff_lines_) |-> LineBytes(diff_lines_[i])])

\* Lines 87-91 (and the host's lines 59-63).  SHA-256 of a document is stood
\* for by a 32-byte value computed from its bytes; no property below rests on
\* this stand-in being collision-free.
RECURSIVE SumBytes(_)
SumBytes(bytes) == IF bytes = <<>> THEN 0 ELSE Head(bytes) + SumBytes(Tail(bytes))
hash_content(content) ==
    [i \in 1..DIGEST_BYTES |-> (SumBytes(content) + i * (Len(content) + 1)) % 256]

\* A document's content: each line followed by a line feed.
FileContent(lines) == Concat([i \in 1..Len(lines) |-> Append(lines[i], 10)])

\* ------------------------------------------------------------------- state
VARIABLES
    file_a,        \* host: the lines of the first file
    file_b,        \* host: the lines of the second file
    redact_str,    \* host: the --redact argument
    pc,            \* where the run stands
    input,         \* the DiffInput handed to the guest
    v,             \* myers_diff: reach per diagonal
    trace,         \* myers_diff: the copies of v, one per level
    d,             \* myers_diff: the level
    k,             \* myers_diff: the diagonal
    x,             \* backtrack: position in A
    y,             \* backtrack: position in B
    trace_d,       \* backtrack: the level walked back through
    edits,         \* backtrack: the edits pushed so far; then the edit script
    diff_lines,    \* main: the records
    output,        \* main: the committed DiffOutput
    picked,        \* history: the neighbour the solver took at each (d, k)
    walked,        \* history: the neighbour the reconstructor took at each level
    commit_in,     \* two calls of create_proof_hash: their arguments
    commit_out     \* two calls of create_proof_hash: their results

vars == <<file_a, file_b, redact_str, pc, input, v, trace, d, k, x, y, trace_d,
          edits, diff_lines, output, picked, walked, commit_in, commit_out>>

solver_vars == <<v, trace, d, k, picked>>
backtrack_vars == <<x, y, trace_d, edits, walked>>
host_vars == <<file_a, file_b, redact_str>>
commit_vars == <<commit_in, commit_out>>

\* The lines documents are made of: "a" and "bb".
Lines == {<<97>>, <<98, 98>>}

NoInput == [file_a_hash |-> <<>>, file_b_hash |-> <<>>, lines_a |-> <<>>,
            lines_b |-> <<>>, redaction_ranges |-> <<>>]

InitWith(docs, args) ==
    /\ file_a \in docs
    /\ file_b \in docs
    /\ redact_str \in args
    /\ pc = "generate_proof"
    /\ input = NoInput
    /\ v = <<>>
    /\ trace = <<>>
    /\ d = 0
    /\ k = 0
    /\ x = 0
    /\ y = 0
    /\ trace_d = 0
    /\ edits = <<>>
    /\ diff_lines = <<>>
    /\ output = None
    /\ picked = {}
    /\ walked = {}

\* host lines 130-161: read the files, hash them, parse the redaction
\* argument (`?` ends the run on a parse error), hand the input to the guest.
GenerateProof ==
    /\ pc = "generate_proof"
    /\ LET parsed == parse_redaction_ranges(redact_str)
       IN  IF parsed.ok
           THEN /\ input' = [file_a_hash |-> hash_content(FileContent(file_a)),
                             file_b_hash |-> hash_content(FileContent(file_b)),
                             lines_a |-> file_a,
                             lines_b |-> file_b,
                             redaction_ranges |-> parsed.ranges]
                /\ pc' = "main"
           ELSE /\ input' = input
                /\ pc' = "host_error"
    /\ UNCHANGED <<commit_vars, host_vars, solver_vars, backtrack_vars, diff_lines, output>>

n == Len(input.lines_a)
m == Len(input.lines_b)
max_d == n + m
offset == max_d

\* guest lines 59-71 and 93-101: the hashes are checked, the documents are
\* split into lines, myers_diff allocates v and the trace.
MyersDiffEnter ==
    /\ pc = "main"
    /\ IF /\ input.file_a_hash = hash_content(FileContent(input.lines_a))
          /\ input.file_b_hash = hash_content(FileContent(input.lines_b))
       THEN /\ v' = Zeros(2 * max_d + 1)
            /\ trace' = <<>>
            /\ d' = 0
            /\ pc' = "level"
       ELSE /\ UNCHANGED <<v, trace, d>>
            /\ pc' = "panic"
    /\ UNCHANGED <<commit_vars, host_vars, input, k, picked, backtrack_vars, diff_lines, output>>

\* Lines 103-107: a level starts, v is copied to the trace; past the last
\* level myers_diff returns an empty script (line 135).
LevelStart ==
    /\ pc = "level"
    /\ IF d <= max_d
       THEN /\ trace' = Append(trace, v)
            /\ k' = -d
            /\ pc' = "diagonal"
            /\ UNCHANGED edits
       ELSE /\ edits' = <<>>
            /\ pc' = "create_diff_lines"
            /\ UNCHANGED <<trace, k>>
    /\ UNCHANGED <<commit_vars, host_vars, input, v, d, picked, x, y, trace_d, walked,
                   diff_lines, output>>

\* Lines 109-131: one diagonal of the level.
DiagonalStep ==
    /\ pc = "diagonal"
    /\ LET idx == k + offset
       IN  IF \E i \in SolverReads(idx, k, d) : ~InRange(v, i)
           THEN /\ pc' = "panic"
                /\ UNCHANGED <<v, d, k, picked, x, y, trace_d>>
           ELSE
             LET upper == SolverTakesUpper(v, idx, k, d)
                 x0 == IF upper THEN At(v, idx + 1) ELSE At(v, idx - 1) + 1
                 snake == SnakeLength(input.lines_a, input.lines_b, x0, x0 - k)
                 x_cur == x0 + snake
                 y_cur == x0 - k + snake
             IN  /\ v' = [v EXCEPT ![idx + 1] = x_cur]
                 /\ picked' = picked \cup
                        {[d |-> d, k |-> k,
                          lower_reach |-> IF InRange(v, idx - 1) THEN At(v, idx - 1) ELSE -1,
                          upper_reach |-> IF InRange(v, idx + 1) THEN At(v, idx + 1) ELSE -1,
                          prev_k |-> IF upper THEN k + 1 ELSE k - 1]}
                 /\ IF ReachedEnd(x_cur, y_cur, n, m)
                    THEN \* line 130 and lines 139-143
                         /\ pc' = "backtrack"
                         /\ x' = n
                         /\ y' = m
                         /\ trace_d' = d
                         /\ UNCHANGED <<d, k>>
                    ELSE /\ UNCHANGED <<x, y, trace_d>>
                         /\ IF k + 2 <= d
                            THEN /\ k' = k + 2
                                 /\ d' = d
                                 /\ pc' = "diagonal"
                            ELSE /\ k' = k
                                 /\ d' = d + 1
                                 /\ pc' = "level"
    /\ UNCHANGED <<commit_vars, host_vars, input, trace, edits, walked, diff_lines, output>>

\* Lines 145-191: one level of the walk back; after level 0 the edits are
\* reversed and returned to main.
BacktrackStep ==
    /\ pc = "backtrack"
    /\ LET v_ == IF InRange(trace, trace_d) THEN At(trace, trace_d) ELSE <<>>
           k_ == x - y
           idx == k_ + offset
       IN  IF \/ ~InRange(trace, trace_d)
              \/ \E i \in BacktrackReads(idx, k_, trace_d) : ~InRange(v_, i)
           THEN /\ pc' = "panic"
                /\ UNCHANGED backtrack_vars
           ELSE
             LET prev_k == BacktrackPrevK(v_, idx, k_, trace_d)
                 prev_idx == prev_k + offset
             IN  IF trace_d > 0 /\ ~InRange(v_, prev_idx)
                 THEN /\ pc' = "panic"
                      /\ UNCHANGED backtrack_vars
                 ELSE
                   LET prev_x == IF trace_d > 0 THEN At(v_, prev_idx) ELSE 0
                       prev_y == prev_x - prev_k
                       keeps == KeepEdits(x, y, prev_x, prev_y)
                       x1 == x - Len(keeps)
                       y1 == y - Len(keeps)
                       is_delete == trace_d > 0 /\ x1 > prev_x
                       is_insert == trace_d > 0 /\ ~(x1 > prev_x) /\ y1 > prev_y
                       x2 == IF is_delete THEN x1 - 1 ELSE x1
                       y2 == IF is_insert THEN y1 - 1 ELSE y1
                       step == IF is_delete
                               THEN <<[operation |-> "Delete", old_index |-> x2,
                                       new_index |-> y2]>>
                               ELSE IF is_insert
                                    THEN <<[operation |-> "Insert", old_index |-> x2,
                                            new_index |-> y2]>>
                                    ELSE <<>>
                       pushed == edits \o keeps \o step
                   IN  /\ x' = x2
                       /\ y' = y2
                       /\ walked' = walked \cup
                              {[d |-> trace_d, k |-> k_, prev_k |-> prev_k]}
                       /\ IF trace_d > 0
                          THEN /\ trace_d' = trace_d - 1
                               /\ edits' = pushed
                               /\ pc' = "backtrack"
                          ELSE /\ trace_d' = trace_d
                               /\ edits' = Reverse(pushed)
                               /\ pc' = "create_diff_lines"
    /\ UNCHANGED <<commit_vars, host_vars, input, solver_vars, diff_lines, output>>

\* Line 73: the records of the edit script.
CreateDiffLines ==
    /\ pc = "create_diff_lines"
    /\ IF DiffLinesPanics(edits, input.lines_a, input.lines_b)
       THEN /\ pc' = "panic"
            /\ UNCHANGED diff_lines
       ELSE /\ diff_lines' = create_diff_lines(edits, input.lines_a, input.lines_b,
                                               input.redaction_ranges)
            /\ pc' = "create_proof_hash"
    /\ UNCHANGED <<commit_vars, host_vars, input, solver_vars, backtrack_vars, output>>

\* Lines 75-84: the commitment is computed and the output committed.
CommitOutput ==
    /\ pc = "create_proof_hash"
    /\ output' = Some([file_a_hash |-> input.file_a_hash,
                       file_b_hash |-> input.file_b_hash,
                       diff_lines |-> diff_lines,
                       proof_hash |-> create_proof_hash(input.file_a_hash,
                                          input.file_b_hash, diff_lines)])
    /\ pc' = "done"
    /\ UNCHANGED <<commit_vars, host_vars, input, solver_vars, backtrack_vars, diff_lines>>

Next ==
    \/ GenerateProof
    \/ MyersDiffEnter
    \/ LevelStart
    \/ DiagonalStep
    \/ BacktrackStep
    \/ CreateDiffLines
    \/ CommitOutput

\* ------------------------------------------------------------ the inputs
Str(op, s, e) == <<op, ":", Digits[s + 1], "-", Digits[e + 1]>>
Join2(e1, e2) == e1 \o <<",">> \o e2

\* The redaction arguments of Spec: none, one range of each operation, two
\* ranges.
RedactArgs ==
    {<<>>, Str("d", 1, 2), Str("i", 2, 3), Str("r", 1, 3),
     Join2(Str("i", 1, 1), Str("d", 2, 2))}

NoCommitCalls ==
    /\ commit_in = <<>>
    /\ commit_out = <<>>

Init == InitWith(BSeq(Lines, MaxLen), RedactArgs) /\ NoCommitCalls
Spec == Init /\ [][Next]_vars

\* ------------------------------------------------------------ properties
\* The records are built: main is past create_diff_lines.
Built == pc \in {"create_proof_hash", "done"}

IsRedacted(line) == ~IsSome(line.content)

\* The number of lines of the longest common subsequence of a and b.
RECURSIVE LCS(_, _)
LCS(a, b) ==
    IF a = <<>> \/ b = <<>> THEN 0
    ELSE IF a[Len(a)] = b[Len(b)]
         THEN 1 + LCS(SubSeq(a, 1, Len(a) - 1), SubSeq(b, 1, Len(b) - 1))
         ELSE Max(LCS(SubSeq(a, 1, Len(a) - 1), b), LCS(a, SubSeq(b, 1, Len(b) - 1)))

\* A line no document holds: the result of a record that cannot be applied.
BadLine == <<-1>>

\* The records applied in order to the working document w, of which `dels`
\* lines were removed and to which `ins` lines were added so far: a Delete
\* removes the line that stood at lineNumberInA in A, an Insert places its line
\* at lineNumberInB.  A redacted Insert places the line of B it stands for.
RECURSIVE ApplyRecords(_, _, _, _, _)
ApplyRecords(w, records, dels, ins, lines_b) ==
    IF records = <<>> THEN w
    ELSE
      LET r == Head(records)
      IN  IF r.operation = "Delete" /\ IsSome(r.line_number_a)
          THEN LET pos == Unwrap(r.line_number_a) - dels + ins
               IN  IF pos < 1 \/ pos > Len(w) THEN <<BadLine>>
                   ELSE ApplyRecords(SubSeq(w, 1, pos - 1) \o SubSeq(w, pos + 1, Len(w)),
                                     Tail(records), dels + 1, ins, lines_b)
          ELSE IF r.operation = "Insert" /\ IsSome(r.line_number_b)
          THEN LET pos == Unwrap(r.line_number_b)
                   line == IF IsSome(r.content) THEN Unwrap(r.content)
                           ELSE IF InRange(lines_b, pos - 1) THEN At(lines_b, pos - 1)
                           ELSE BadLine
               IN  IF pos < 1 \/ pos > Len(w) + 1 THEN <<BadLine>>
                   ELSE ApplyRecords(SubSeq(w, 1, pos - 1) \o <<line>>
                                         \o SubSeq(w, pos, Len(w)),
                                     Tail(records), dels, ins + 1, lines_b)
          ELSE <<BadLine>>

\* C1: edit-script validity.  Whenever myers_diff has returned and the records
\* are built, applying the Insert and Delete records in order to A gives B.
C1_EditScriptValid ==
    Built => ApplyRecords(input.lines_a, diff_lines, 0, 0, input.lines_b) = input.lines_b

\* A finished run whose script deletes, inserts and keeps lines.
C1_Witness ==
    /\ pc = "done"
    /\ \E i \in 1..Len(diff_lines) : diff_lines[i].operation = "Delete"
    /\ \E i \in 1..Len(diff_lines) : diff_lines[i].operation = "Insert"
    /\ \E i \in 1..Len(edits) : edits[i].operation = "Keep"

\* C2: minimality.  Whenever the records are built, their number is the edit
\* distance n + m - 2*LCS(A, B), and it is the level d at which the solver
\* stopped.
C2_Minimal ==
    Built => /\ Len(diff_lines) = n + m - 2 * LCS(input.lines_a, input.lines_b)
             /\ Len(diff_lines) = d

\* A finished run of two documents that share a line and differ in others.
C2_Witness ==
    /\ pc = "done"
    /\ LCS(input.lines_a, input.lines_b) > 0
    /\ d >= 3
    /\ n # m

NonKeep(e) == e.operation # "Keep"

\* C5: the record invariant.  The records are, in order, those of the edits
\* that are not Keep; each has exactly one of content and redacted_length; a
\* redacted record has no content and the byte length of its true line; any
\* other record has that line as content; a Delete has line_number_a only and
\* an Insert line_number_b only, both 1-based; no record is a Replace.
C5_RecordInvariant ==
    Built =>
      LET script == SelectSeq(edits, NonKeep)
      IN  /\ Len(diff_lines) = Len(script)
          /\ \A i \in 1..Len(diff_lines) :
               LET r == diff_lines[i]
                   e == script[i]
                   true_line == IF e.operation = "Delete"
                                THEN At(input.lines_a, e.old_index)
                                ELSE At(input.lines_b, e.new_index)
               IN  /\ r.operation = e.operation
                   /\ r.operation \in {"Insert", "Delete"}
                   /\ IsSome(r.content) # IsSome(r.redacted_length)
                   /\ IsSome(r.redacted_length) => r.redacted_length = Some(Len(true_line))
                   /\ IsSome(r.content) => r.content = Some(true_line)
                   /\ r.operation = "Delete" =>
                        /\ r.line_number_a = Some(e.old_index + 1)
                        /\ r.line_number_b = None
                   /\ r.operation = "Insert" =>
                        /\ r.line_number_b = Some(e.new_index + 1)
                        /\ r.line_number_a = None

\* A finished run with a redacted and an unredacted record, and a kept line.
C5_Witness ==
    /\ pc = "done"
    /\ \E i \in 1..Len(diff_lines) : IsRedacted(diff_lines[i])
    /\ \E i \in 1..Len(diff_lines) : ~IsRedacted(diff_lines[i])
    /\ Len(edits) > Len(diff_lines)

\* The size ceiling a deployment would configure.
SizeCeiling == MaxLen + 1

\* C8: the resource limit.  When n + m exceeds the ceiling, the solver
\* allocates neither v nor the trace and no output is committed.
C8_ResourceLimit ==
    Len(file_a) + Len(file_b) > SizeCeiling =>
        /\ v = <<>>
        /\ trace = <<>>
        /\ output = None

\* C9: the solver's edge cases.  With an empty A or B no index is out of range
\* and the records are the Inserts of B's lines, or the Deletes of A's lines,
\* in increasing line order; two equal documents stop at d = 0 without a
\* record.
C9_EdgeCases ==
    /\ (Len(file_a) = 0 \/ Len(file_b) = 0 \/ file_a = file_b) => pc # "panic"
    /\ (Built /\ n = 0) =>
          /\ Len(diff_lines) = m
          /\ \A i \in 1..m : /\ diff_lines[i].operation = "Insert"
                             /\ diff_lines[i].line_number_b = Some(i)
    /\ (Built /\ m = 0) =>
          /\ Len(diff_lines) = n
          /\ \A i \in 1..n : /\ diff_lines[i].operation = "Delete"
                             /\ diff_lines[i].line_number_a = Some(i)
    /\ (Built /\ input.lines_a = input.lines_b) => (d = 0 /\ diff_lines = <<>>)

\* C10 as stated (its tie case): where the reaches of diagonals k-1 and k+1
\* are equal, the solver takes the step from diagonal k+1.  The boundary k = d,
\* where diagonal k+1 holds no reach of the level before, is left out in the
\* claim's favour.
C10_TiePrefersInsertion ==
    \A p \in picked :
        (p.k # -p.d /\ p.k # p.d /\ p.lower_reach = p.upper_reach) => p.prev_k = p.k + 1

\* C10 as amended: the solver takes the step from diagonal k+1 exactly when
\* k = -d, or k # d and the reach of k-1 is strictly below that of k+1; with
\* equal reaches, or at k = d, it takes the step from diagonal k-1.  At every
\* level it walks back through, the reconstructor takes the neighbour the
\* solver took at that level and diagonal.
C10_TieBreakShared ==
    /\ \A p \in picked :
          /\ p.prev_k \in {p.k - 1, p.k + 1}
          /\ (p.prev_k = p.k + 1) <=>
                (p.k = -p.d \/ (p.k # p.d /\ p.lower_reach < p.upper_reach))
    /\ \A w \in walked :
          \E p \in picked : p.d = w.d /\ p.k = w.k /\ p.prev_k = w.prev_k

\* A finished run that walked back through a point the solver reached with
\* equal reaches on both neighbours.
C10_Witness ==
    /\ pc = "done"
    /\ \E w \in walked : \E p \in picked :
          /\ p.d = w.d /\ p.k = w.k
          /\ p.k # -p.d /\ p.k # p.d
          /\ p.lower_reach = p.upper_reach
          /\ w.prev_k = w.k - 1

\* ------------------------------------------- the redaction specification
\* Every well-formed entry over the short operation names and the numbers
\* 0..MaxRangeNum.
WellFormedEntries ==
    {Str(op, s, e) : op \in {"i", "d", "r"}, s \in 0..MaxRangeNum, e \in 0..MaxRangeNum}

\* "delete:1-1", a well-formed entry with a long operation name.
LongNameEntry == <<"d", "e", "l", "e", "t", "e", ":", "1", "-", "1">>

\* Malformed entries: an unknown operation, no '-', two '-', no ':', a start
\* that is no number, an end that is no number.
MalformedEntries ==
    {<<"x", ":", "1", "-", "2">>,
     <<"d", ":", "1">>,
     <<"d", ":", "1", "-", "2", "-", "2">>,
     <<"d", "1", "-", "2">>,
     <<"d", ":", "a", "-", "2">>,
     <<"i", ":", "1", "-", "b">>}

RedactArgsAll ==
    {<<>>} \cup WellFormedEntries \cup MalformedEntries \cup {LongNameEntry}
    \cup {Join2(e1, e2) : e1 \in MalformedEntries \cup {LongNameEntry},
                          e2 \in WellFormedEntries}
    \cup {Join2(e1, e2) : e1 \in WellFormedEntries, e2 \in MalformedEntries}

InitRedact == InitWith(BSeq(Lines, MaxLenRedact), RedactArgsAll) /\ NoCommitCalls
SpecRedact == InitRedact /\ [][Next]_vars

\* The 0-based index and the 1-based line number a record carries.
LineNumber(line) ==
    IF line.operation = "Delete" THEN Unwrap(line.line_number_a)
    ELSE Unwrap(line.line_number_b)

\* C3: the redaction rule.  A record at 0-based index i is redacted exactly
\* when some range whose operation is the record's or Replace has
\* i >= max(0, start_line - 1) and i < end_line.
C3_RedactionRule ==
    Built =>
      \A j \in 1..Len(diff_lines) :
        LET r == diff_lines[j]
            i == LineNumber(r) - 1
        IN  IsRedacted(r) <=>
              \E q \in 1..Len(input.redaction_ranges) :
                LET range == input.redaction_ranges[q]
                IN  /\ range.operation \in {r.operation, "Replace"}
                    /\ i >= Max(0, range.start_line - 1)
                    /\ i < range.end_line

\* C4 as stated: a record is redacted only when some range has
\* start_line <= L < end_line for the record's 1-based line number L.  Only
\* runs whose ranges all start at line 1 or later are looked at.
C4_EndExclusive ==
    (Built /\ \A q \in 1..Len(input.redaction_ranges) :
                  input.redaction_ranges[q].start_line >= 1) =>
      \A j \in 1..Len(diff_lines) :
        IsRedacted(diff_lines[j]) =>
          \E q \in 1..Len(input.redaction_ranges) :
            /\ input.redaction_ranges[q].start_line <= LineNumber(diff_lines[j])
            /\ LineNumber(diff_lines[j]) < input.redaction_ranges[q].end_line

\* C4 as amended: end_line is inclusive.  A record is redacted only when some
\* range of its operation has start_line <= L <= end_line for the record's
\* 1-based line number L, and a record of the range's operation whose line
\* number equals end_line (with start_line <= end_line) is redacted.
C4_EndInclusive ==
    Built =>
      \A j \in 1..Len(diff_lines) :
        LET r == diff_lines[j]
            L == LineNumber(r)
        IN  /\ IsRedacted(r) =>
                \E q \in 1..Len(input.redaction_ranges) :
                  /\ input.redaction_ranges[q].operation = r.operation
                  /\ input.redaction_ranges[q].start_line <= L
                  /\ L <= input.redaction_ranges[q].end_line
            /\ \A q \in 1..Len(input.redaction_ranges) :
                  ( /\ input.redaction_ranges[q].operation = r.operation
                    /\ input.redaction_ranges[q].start_line <= L
                    /\ L = input.redaction_ranges[q].end_line ) => IsRedacted(r)

\* A finished run with a record redacted by a range that ends at the record's
\* line number, and a record one line past a range's end left unredacted.
C4_Witness ==
    /\ pc = "done"
    /\ \E j \in 1..Len(diff_lines) : \E q \in 1..Len(input.redaction_ranges) :
          /\ IsRedacted(diff_lines[j])
          /\ input.redaction_ranges[q].operation = diff_lines[j].operation
          /\ input.redaction_ranges[q].end_line = LineNumber(diff_lines[j])
          /\ Len(input.redaction_ranges) = 1
    /\ \E j \in 1..Len(diff_lines) : \E q \in 1..Len(input.redaction_ranges) :
          /\ ~IsRedacted(diff_lines[j])
          /\ input.redaction_ranges[q].operation = diff_lines[j].operation
          /\ input.redaction_ranges[q].end_line + 1 = LineNumber(diff_lines[j])

\* An entry is well-formed: two ':' parts, a known operation, two '-' parts,
\* both numbers.
IsWellFormed(entry) ==
    LET parts == Split(entry, ":")
    IN  /\ Len(parts) = 2
        /\ IsSome(ParseOperation(parts[1]))
        /\ Len(Split(parts[2], "-")) = 2
        /\ IsSome(ParseUsize(Split(parts[2], "-")[1]))
        /\ IsSome(ParseUsize(Split(parts[2], "-")[2]))

RangeOf(entry) ==
    LET parts == Split(entry, ":")
    IN  [start_line |-> Unwrap(ParseUsize(Split(parts[2], "-")[1])),
         end_line |-> Unwrap(ParseUsize(Split(parts[2], "-")[2])),
         operation |-> Unwrap(ParseOperation(parts[1]))]

\* The ranges of the well-formed entries of a redaction argument, in order.
WellFormedRanges(str) ==
    LET kept == SelectSeq(Split(str, ","), IsWellFormed)
    IN  [i \in 1..Len(kept) |-> RangeOf(kept[i])]

\* C7: redaction-argument parsing.  No argument fails the run, and the ranges
\* handed to the guest are those of the argument's well-formed entries.
C7_MalformedSkipped ==
    /\ pc # "host_error"
    /\ pc # "generate_proof" => input.redaction_ranges = WellFormedRanges(redact_str)

\* --------------------------------------------- the commitment specification
\* Two calls of create_proof_hash, on any two arguments whose records keep the
\* record invariant (an Insert or Delete with its own line number, and either
\* a content or a redacted length).
DigestOf(byte) == [i \in 1..DIGEST_BYTES |-> byte]
CommitDigests == {DigestOf(0), DigestOf(255)}

\* The bytes that follow the content of one record when an Insert of line 2
\* with a content comes next: its tag, its line number, its marker.
NextRecordHead == <<1>> \o to_le_bytes(2) \o ContentMarker

\* The contents of the records: the empty line, and a line of those bytes
\* (0x00, 0x01 and 0x02 are characters a line may hold).
CommitContents == {<<>>, NextRecordHead}

CommitLines ==
    {[line_number_a |-> IF op = "Delete" THEN Some(ln) ELSE None,
      line_number_b |-> IF op = "Insert" THEN Some(ln) ELSE None,
      operation |-> op,
      content |-> c,
      redacted_length |-> None] :
        op \in {"Insert", "Delete"}, ln \in 1..2, c \in {Some(t) : t \in CommitContents}}
    \cup
    {[line_number_a |-> IF op = "Delete" THEN Some(ln) ELSE None,
      line_number_b |-> IF op = "Insert" THEN Some(ln) ELSE None,
      operation |-> op,
      content |-> None,
      redacted_length |-> Some(0)] :
        op \in {"Insert", "Delete"}, ln \in 1..2}

\* Record sequences in which the line numbers of each operation increase, as
\* in every edit script.
Increasing(lines) ==
    \A i, j \in 1..Len(lines) :
        (i < j /\ lines[i].operation = lines[j].operation) =>
            LineNumber(lines[i]) < LineNumber(lines[j])

CommitArgs ==
    {[file_a_hash |-> da, file_b_hash |-> db, diff_lines |-> ls] :
        da \in CommitDigests, db \in CommitDigests,
        ls \in {t \in BSeq(CommitLines, 2) : Increasing(t)}}

InitCommit ==
    /\ InitWith({<<>>}, {<<>>})
    /\ commit_in \in [1..2 -> CommitArgs]
    /\ commit_out = <<None, None>>

\* Lines 260-293: one of the two calls runs.
CreateProofHash(call) ==
    /\ commit_in # <<>>
    /\ commit_out[call] = None
    /\ commit_out' = [commit_out EXCEPT ![call] =
           Some(create_proof_hash(commit_in[call].file_a_hash,
                                  commit_in[call].file_b_hash,
                                  commit_in[call].diff_lines))]
    /\ UNCHANGED <<host_vars, pc, input, solver_vars, backtrack_vars, diff_lines,
                   output, commit_in>>

NextCommit == \E call \in 1..2 : CreateProofHash(call)

SpecCommit == InitCommit /\ [][NextCommit]_vars

\* C6: commitment binding.  Two calls of create_proof_hash that return the
\* same commitment were given the same digests and the same records.
C6_CommitmentBinding ==
    (commit_in # <<>> /\ commit_out[1] # None /\ commit_out[1] = commit_out[2])
        => commit_in[1] = commit_in[2]

====
